---- MODULE Spec2Model ----
(***************************************************************************)
(* Two solvers of tig-algorithms:                                          *)
(*   knapsack/bounded_greedy_dp/inbound.rs      (solve_challenge)          *)
(*   vehicle_routing/overloded/innovator_outbound.rs (solve_challenge)     *)
(* Each solver is a state machine over its local variables; the knapsack   *)
(* variables are idle in the routing specification and vice versa.         *)
(***************************************************************************)
EXTENDS Integers, Sequences, FiniteSets, TLC

\* ------------------------------------------------------------------ bounds
\* knapsack instances of the solver specification
MaxItems == 3
WeightValues == {1, 10, 11, 22}
ValueValues == {4, 15, 30}
CapacityValues == {11}
MinValueValues == {0, 15, 19, 40}

\* knapsack instances of the large-capacity specification
MaxItemsIdx == 2
CapacityValuesIdx == {62, 63, 64, 65, 127, 128, 129}
WeightValuesIdx == {1, 40, 64}
ValueValuesIdx == {1, 2}
MinValueValuesIdx == {1, 3, 9}

\* vehicle routing
NodeCounts == {2, 3}
DistanceValues == {1, 2}
DrawValues == {<<0, 1>>, <<1, 2>>}   \* the draws r, as fractions <<n, d>> of [0, 1)
NumAnts == 2          \* ants per iteration (10 in the source)
FewAnts == 1          \* ants per iteration of the specification of few ants
MaxIterations == 2    \* iterations (1000 in the source)

\* ------------------------------------------------------- program constants
F64Max == 2147483647  \* f64::MAX: above every tour length of the instances
WordBits == 64        \* width of one u64 word of `included`
LimbBits == 13        \* an f64 significand is 1 + 4 * LimbBits = 53 bits

VARIABLES
  pc,               \* position in the running solve_challenge
  \* knapsack (inbound.rs)
  num_items, weights, values, max_weight, min_value,
  sorted_items,     \* position -> item index (the ratio is values/weights of that index)
  upper_bound,
  dp, included,     \* included: word index -> set of bit positions that are 1
  i,                \* position of the item of the outer DP loop
  improved,         \* the pairs <<position, w>> at which `new_value > dp[w]` held
  accessed,         \* word indices of `included` written or read so far
  result,
  \* vehicle routing (innovator_outbound.rs)
  num_nodes, distance_matrix,
  num_ants, max_iterations,
  pheromone_matrix, \* <<i, j>> -> f64
  best_tour, best_tour_length,
  iteration,        \* iterations of the outer loop completed
  ants,             \* the ants of the current iteration
  ant,              \* the ant under construction: [tour, tour_length]
  visited,
  last_draw         \* the value of r of the latest selection step

kvars == <<num_items, weights, values, max_weight, min_value, sorted_items,
           upper_bound, dp, included, i, improved, accessed, result>>
rvars == <<num_nodes, distance_matrix, num_ants, max_iterations,
           pheromone_matrix, best_tour, best_tour_length, iteration, ants,
           ant, visited, last_draw>>
vars == <<pc, kvars, rvars>>

\* ------------------------------------------------------------ f64 arithmetic
\* An f64 is modelled exactly: zero, or the finite positive number
\* (2^52 + m) * 2^(e - 52), the 52 fraction bits m being kept as four limbs
\* of LimbBits bits, most significant limb first (1 + 4 * 13 = 53 bits).
Zero64 == [cls |-> "zero", e |-> 0, m |-> <<0, 0, 0, 0>>]

RECURSIVE Pow2(_)
Pow2(k) == IF k = 0 THEN 1 ELSE 2 * Pow2(k - 1)
LimbBase == Pow2(LimbBits)

\* the exponent e with 2^e <= a/b < 2^(e+1), for a, b >= 1
RECURSIVE ExpUp(_, _, _)
ExpUp(a, b, e) == IF 2 * b <= a THEN ExpUp(a, 2 * b, e + 1) ELSE e
RECURSIVE ExpDown(_, _, _)
ExpDown(a, b, e) == IF a < b THEN ExpDown(2 * a, b, e - 1) ELSE e
Exponent(a, b) == IF a >= b THEN ExpUp(a, b, 0) ELSE ExpDown(a, b, 0)

\* round-to-nearest, ties-to-even of the significand with fraction limbs m at
\* exponent e; up: the discarded part is above one half; tie: exactly one half
RoundNearestEven(m, e, up, tie) ==
  IF up \/ (tie /\ m[4] % 2 = 1)
  THEN LET s4 == m[4] + 1
           s3 == m[3] + s4 \div LimbBase
           s2 == m[2] + s3 \div LimbBase
           s1 == m[1] + s2 \div LimbBase
       IN IF s1 \div LimbBase = 1
          THEN [cls |-> "fin", e |-> e + 1, m |-> <<0, 0, 0, 0>>]
          ELSE [cls |-> "fin", e |-> e,
                m |-> <<s1, s2 % LimbBase, s3 % LimbBase, s4 % LimbBase>>]
  ELSE [cls |-> "fin", e |-> e, m |-> m]

\* `a as f64 / b as f64` for integers a >= 0, b >= 1: binary long division
\* of the scaled operands, one limb of quotient bits per step
F64Div(a, b) ==
  IF a = 0 THEN Zero64
  ELSE LET e == Exponent(a, b)
           sa == IF e < 0 THEN a * Pow2(0 - e) ELSE a
           sb == IF e > 0 THEN b * Pow2(e) ELSE b
           r0 == sa - sb
           q1 == (r0 * LimbBase) \div sb
           r1 == (r0 * LimbBase) % sb
           q2 == (r1 * LimbBase) \div sb
           r2 == (r1 * LimbBase) % sb
           q3 == (r2 * LimbBase) \div sb
           r3 == (r2 * LimbBase) % sb
           q4 == (r3 * LimbBase) \div sb
           r4 == (r3 * LimbBase) % sb
       IN RoundNearestEven(<<q1, q2, q3, q4>>, e, 2 * r4 > sb, 2 * r4 = sb)

\* `x * (n as f64)` for an f64 x and an integer 0 <= n < 2^12: the exact
\* product, then the k bits in excess of 53 rounded away
F64MulInt(x, n) ==
  IF x.cls = "zero" \/ n = 0 THEN Zero64
  ELSE LET t4 == x.m[4] * n
           t3 == x.m[3] * n + t4 \div LimbBase
           t2 == x.m[2] * n + t3 \div LimbBase
           t1 == x.m[1] * n + t2 \div LimbBase
           top == n + t1 \div LimbBase
           o4 == t4 % LimbBase
           o3 == t3 % LimbBase
           o2 == t2 % LimbBase
           o1 == t1 % LimbBase
           k == Exponent(top, 1)
           lo == Pow2(k)
           hi == Pow2(LimbBits - k)
           lost == o4 % lo
           kept == << (top % lo) * hi + o1 \div lo, (o1 % lo) * hi + o2 \div lo,
                      (o2 % lo) * hi + o3 \div lo, (o3 % lo) * hi + o4 \div lo >>
       IN RoundNearestEven(kept, x.e + k, 2 * lost > lo, k > 0 /\ 2 * lost = lo)

\* `x as usize`: truncation toward zero (for x below 2^26)
F64ToUsize(x) ==
  IF x.cls = "zero" \/ x.e < 0 THEN 0
  ELSE IF x.e <= LimbBits
  THEN Pow2(x.e) + x.m[1] \div Pow2(LimbBits - x.e)
  ELSE Pow2(x.e) + x.m[1] * Pow2(x.e - LimbBits)
         + x.m[2] \div Pow2(2 * LimbBits - x.e)

\* x < y on f64 (the Less of partial_cmp)
F64Less(x, y) ==
  IF y.cls = "zero" THEN FALSE
  ELSE IF x.cls = "zero" THEN TRUE
  ELSE IF x.e # y.e THEN x.e < y.e
  ELSE \E k \in 1..4 : /\ x.m[k] < y.m[k]
                       /\ \A j \in 1..(k - 1) : x.m[j] = y.m[j]

\* ------------------------------------------------- knapsack: pure helpers
\* values[i] as f64 / weights[i] as f64, the second component of sorted_items
Ratio(item) == F64Div(values[item], weights[item])

\* The orders sort_unstable_by(|a, b| b.1.partial_cmp(&a.1)) may leave: every
\* arrangement of 0..num_items-1 in which no ratio is below a later one
\* (the order of items of equal ratio is not specified by sort_unstable).
SortedOrders ==
  LET pos == 0..(num_items - 1)
      ratio == [k \in pos |-> Ratio(k)]
  IN {s \in [pos -> pos] :
        /\ \A a, b \in pos : a # b => s[a] # s[b]
        /\ \A a \in pos : a + 1 \in pos => ~F64Less(ratio[s[a]], ratio[s[a + 1]])}

\* the loop over sorted_items that accumulates upper_bound, from position k on
RECURSIVE BoundLoop(_, _, _)
BoundLoop(k, bound, remaining_weight) ==
  IF k = num_items THEN bound
  ELSE LET item_index == sorted_items[k]
           item_weight == weights[item_index]
           item_value == values[item_index]
       IN IF item_weight <= remaining_weight
          THEN BoundLoop(k + 1, bound + item_value, remaining_weight - item_weight)
          ELSE bound + F64ToUsize(F64MulInt(Ratio(item_index), remaining_weight))
UpperBound == BoundLoop(0, 0, max_weight)

\* length of `included` and the word / bit addressed for (position, capacity)
IncludedLenTruncated == (num_items * (max_weight + 1)) \div WordBits
IncludedLen == (num_items * (max_weight + 1) + (WordBits - 1)) \div WordBits
WordIndex(pos, w) == pos * ((max_weight + 1) \div WordBits) + w \div WordBits
BitIndex(w) == w % WordBits
TestBit(inc, pos, w) == BitIndex(w) \in inc[WordIndex(pos, w)]

\* the inner loop `for w in (item_weight..=max_weight).rev()`: the capacities
\* at which `new_value > dp[w]` holds.  The scan runs downwards, so
\* dp[w - item_weight] is read before this pass can have overwritten it: every
\* test of the pass sees the dp of the pass's start.
Hits(item_weight, item_value) ==
  {w \in item_weight..max_weight : dp[w - item_weight] + item_value > dp[w]}

\* the backward walk `for j in (0..=i).rev()` from position j with cursor w;
\* bits is the set of (position, capacity) pairs whose inclusion test
\* succeeds; the items are pushed in walk order
RECURSIVE Walk(_, _, _)
Walk(bits, j, w) ==
  IF j < 0 THEN <<>>
  ELSE IF <<j, w>> \in bits
  THEN LET item_weight == weights[sorted_items[j]]
           next_w == IF w >= item_weight THEN w - item_weight ELSE 0
       IN <<sorted_items[j]>> \o Walk(bits, j - 1, next_w)
  ELSE Walk(bits, j - 1, w)

\* the word indices the backward walk reads
RECURSIVE WalkReads(_, _)
WalkReads(j, w) ==
  IF j < 0 THEN {}
  ELSE LET item_weight == weights[sorted_items[j]]
           next_w == IF w >= item_weight THEN w - item_weight ELSE 0
       IN {WordIndex(j, w)} \cup
          (IF TestBit(included, j, w) THEN WalkReads(j - 1, next_w)
           ELSE WalkReads(j - 1, w))

Reverse(s) == [k \in 1..Len(s) |-> s[Len(s) + 1 - k]]

\* the (position, capacity) pairs whose bit of `included` is set
IncludedBits ==
  {p \in (0..i) \X (0..max_weight) : TestBit(included, p[1], p[2])}
\* selected_items as the code reconstructs it, and as the plain table gives it
SelectedItems == Reverse(Walk(IncludedBits, i, max_weight))
TableItems == Reverse(Walk(improved, i, max_weight))

RECURSIVE SumOver(_, _)
SumOver(f, items) ==
  IF items = <<>> THEN 0 ELSE f[Head(items)] + SumOver(f, Tail(items))

Pending == [kind |-> "pending", items |-> <<>>]
None == [kind |-> "None", items |-> <<>>]
Some(items) == [kind |-> "Some", items |-> items]

\* ------------------------------------------------------ knapsack: actions
RoutingIdle ==
  /\ num_nodes = 0 /\ distance_matrix = <<>> /\ num_ants = 0
  /\ max_iterations = 0 /\ pheromone_matrix = <<>> /\ best_tour = <<>>
  /\ best_tour_length = F64Max /\ iteration = 0 /\ ants = <<>>
  /\ ant = [tour |-> <<>>, tour_length |-> 0] /\ visited = <<>>
  /\ last_draw = [n |-> 0, d |-> 1]

KnapsackIdle(start) ==
  /\ pc = start
  /\ sorted_items = <<>> /\ upper_bound = 0 /\ dp = <<>> /\ included = <<>>
  /\ i = 0 /\ improved = {} /\ accessed = {} /\ result = Pending

InitKnapsack ==
  /\ num_items \in 1..MaxItems
  /\ weights \in [0..(num_items - 1) -> WeightValues]
  /\ values \in [0..(num_items - 1) -> ValueValues]
  /\ max_weight \in CapacityValues
  /\ min_value \in MinValueValues
  /\ KnapsackIdle("sort")
  /\ RoutingIdle

InitLargeCapacity ==
  /\ num_items \in 1..MaxItemsIdx
  /\ weights \in [0..(num_items - 1) -> WeightValuesIdx]
  /\ values \in [0..(num_items - 1) -> ValueValuesIdx]
  /\ max_weight \in CapacityValuesIdx
  /\ min_value \in MinValueValuesIdx
  /\ KnapsackIdle("sort")
  /\ RoutingIdle

\* lines 26-29
SortItems ==
  /\ pc = "sort"
  /\ sorted_items' \in SortedOrders
  /\ pc' = "bound"
  /\ UNCHANGED <<rvars, num_items, weights, values, max_weight, min_value,
                 upper_bound, dp, included, i, improved, accessed, result>>

\* lines 31-49, upper_bound < min_value
PruneByBound ==
  /\ pc = "bound"
  /\ upper_bound' = UpperBound
  /\ upper_bound' < min_value
  /\ result' = None
  /\ pc' = "done"
  /\ UNCHANGED <<rvars, num_items, weights, values, max_weight, min_value,
                 sorted_items, dp, included, i, improved, accessed>>

\* lines 31-53, upper_bound >= min_value
PassBound ==
  /\ pc = "bound"
  /\ upper_bound' = UpperBound
  /\ upper_bound' >= min_value
  /\ dp' = [w \in 0..max_weight |-> 0]
  /\ included' = [k \in 0..(IncludedLen - 1) |-> {}]
  /\ i' = 0
  /\ pc' = "item"
  /\ UNCHANGED <<rvars, num_items, weights, values, max_weight, min_value,
                 sorted_items, improved, accessed, result>>

\* lines 55-66: the inner loop for the item at position i
ProcessItem ==
  /\ pc = "item"
  /\ i < num_items
  /\ LET item_index == sorted_items[i]
         item_weight == weights[item_index]
         item_value == values[item_index]
         hits == Hits(item_weight, item_value)
     IN /\ dp' = [w \in 0..max_weight |->
                    IF w \in hits THEN dp[w - item_weight] + item_value ELSE dp[w]]
        /\ included' = [k \in DOMAIN included |->
                          included[k] \cup
                            {BitIndex(w) : w \in {x \in hits : WordIndex(i, x) = k}}]
        /\ improved' = improved \cup {<<i, w>> : w \in hits}
        /\ accessed' = accessed \cup {WordIndex(i, w) : w \in hits}
  /\ pc' = "check"
  /\ UNCHANGED <<rvars, num_items, weights, values, max_weight, min_value,
                 sorted_items, upper_bound, i, result>>

\* lines 68-80: dp[max_weight] >= min_value, reconstruct and return
EarlyExit ==
  /\ pc = "check"
  /\ dp[max_weight] >= min_value
  /\ accessed' = accessed \cup WalkReads(i, max_weight)
  /\ result' = Some(SelectedItems)
  /\ pc' = "done"
  /\ UNCHANGED <<rvars, num_items, weights, values, max_weight, min_value,
                 sorted_items, upper_bound, dp, included, i, improved>>

\* line 68 false: on to the next position
NextItem ==
  /\ pc = "check"
  /\ dp[max_weight] < min_value
  /\ i' = i + 1
  /\ pc' = "item"
  /\ UNCHANGED <<rvars, num_items, weights, values, max_weight, min_value,
                 sorted_items, upper_bound, dp, included, improved, accessed,
                 result>>

\* line 83: every item processed
Exhausted ==
  /\ pc = "item"
  /\ i = num_items
  /\ result' = None
  /\ pc' = "done"
  /\ UNCHANGED <<rvars, num_items, weights, values, max_weight, min_value,
                 sorted_items, upper_bound, dp, included, i, improved, accessed>>

NextKnapsack ==
  \/ SortItems
  \/ PruneByBound
  \/ PassBound
  \/ ProcessItem
  \/ EarlyExit
  \/ NextItem
  \/ Exhausted

SpecKnapsack == InitKnapsack /\ [][NextKnapsack]_vars
SpecLargeCapacity == InitLargeCapacity /\ [][NextKnapsack]_vars

\* ------------------------------------------ routing: f64 as exact fractions
\* The f64 values of the routing solver are modelled as exact non-negative
\* fractions [n, d] in lowest terms, with +infinity = [1, 0] and NaN = [0, 0];
\* the operations follow IEEE 754 on these values, without rounding.
RECURSIVE Gcd(_, _)
Gcd(a, b) == IF b = 0 THEN a ELSE Gcd(b, a % b)
Inf == [n |-> 1, d |-> 0]
NaN == [n |-> 0, d |-> 0]
Frac(n, d) ==
  IF d = 0 THEN (IF n = 0 THEN NaN ELSE Inf)
  ELSE LET g == Gcd(n, d) IN [n |-> n \div g, d |-> d \div g]
IsNaN(x) == x.n = 0 /\ x.d = 0
IsInf(x) == x.n # 0 /\ x.d = 0

FAdd(x, y) ==
  IF IsNaN(x) \/ IsNaN(y) THEN NaN
  ELSE IF IsInf(x) \/ IsInf(y) THEN Inf
  ELSE LET g == Gcd(x.d, y.d)
       IN Frac(x.n * (y.d \div g) + y.n * (x.d \div g), (x.d \div g) * y.d)
\* x * y: the factors are cross-reduced first; 0 * inf = NaN
FMul(x, y) ==
  LET g1 == Gcd(x.n, y.d)
      g2 == Gcd(y.n, x.d)
  IN IF x.d = 0 \/ y.d = 0 THEN Frac(x.n * y.n, 0)
     ELSE Frac((x.n \div g1) * (y.n \div g2), (x.d \div g2) * (y.d \div g1))
\* x / y: fin/inf = 0, inf/inf = NaN, 0/0 = NaN, x/0 = inf
FDiv(x, y) ==
  IF IsNaN(x) \/ IsNaN(y) THEN NaN
  ELSE IF IsInf(y) THEN (IF IsInf(x) THEN NaN ELSE Frac(0, 1))
  ELSE IF IsInf(x) THEN Inf
  ELSE IF y.n = 0 THEN Frac(x.n, 0)
  ELSE FMul(x, [n |-> y.d, d |-> y.n])
\* x <= y; false when either side is NaN
FLeq(x, y) ==
  IF IsNaN(x) \/ IsNaN(y) THEN FALSE
  ELSE IF IsInf(y) THEN TRUE
  ELSE IF IsInf(x) THEN FALSE
  ELSE x.n * y.d <= y.n * x.d

\* ---------------------------------------------------- routing: pure helpers
Nodes == 0..(num_nodes - 1)

\* lines 57-64: probabilities[next_node] of the candidates from current_node
Probabilities(current_node) ==
  [next_node \in Nodes |->
     IF ~visited[next_node]
     THEN LET pheromone == pheromone_matrix[<<current_node, next_node>>]   \* powf(1.0)
              inverse == Frac(1, distance_matrix[<<current_node, next_node>>])
              heuristic == FMul(inverse, inverse)                         \* powf(2.0)
          IN FMul(pheromone, heuristic)
     ELSE Frac(0, 1)]

\* line 62: total_probability, accumulated over the unvisited nodes in order
RECURSIVE TotalProbability(_, _)
TotalProbability(probabilities, k) ==
  IF k < 0 THEN Frac(0, 1)
  ELSE IF ~visited[k]
  THEN FAdd(TotalProbability(probabilities, k - 1), probabilities[k])
  ELSE TotalProbability(probabilities, k - 1)

\* lines 66-76: the scan of the cumulative distribution from index k on;
\* next_node keeps its initial value 0 when no index satisfies the test
RECURSIVE Scan(_, _, _, _, _)
Scan(probabilities, total_probability, r, k, cumulative_probability) ==
  IF k = num_nodes THEN 0
  ELSE LET cumulative == FAdd(cumulative_probability,
                              FDiv(probabilities[k], total_probability))
       IN IF FLeq(r, cumulative) THEN k
          ELSE Scan(probabilities, total_probability, r, k + 1, cumulative)

\* TRUE when the scan from index k on reaches the end without a selection
RECURSIVE ScanFallsThrough(_, _, _, _, _)
ScanFallsThrough(probabilities, total_probability, r, k, cumulative_probability) ==
  IF k = num_nodes THEN TRUE
  ELSE LET cumulative == FAdd(cumulative_probability,
                              FDiv(probabilities[k], total_probability))
       IN IF FLeq(r, cumulative) THEN FALSE
          ELSE ScanFallsThrough(probabilities, total_probability, r, k + 1, cumulative)

\* lines 53-76: the node selected for the draw r
NextNode(r) ==
  LET current_node == ant.tour[Len(ant.tour)]
      probabilities == Probabilities(current_node)
      total_probability == TotalProbability(probabilities, num_nodes - 1)
  IN Scan(probabilities, total_probability, r, 0, Frac(0, 1))

FellThrough(r) ==
  LET current_node == ant.tour[Len(ant.tour)]
      probabilities == Probabilities(current_node)
      total_probability == TotalProbability(probabilities, num_nodes - 1)
  IN ScanFallsThrough(probabilities, total_probability, r, 0, Frac(0, 1))

\* lines 115-121
RECURSIVE calculate_tour_length_open(_, _)
calculate_tour_length_open(tour, k) ==
  IF k >= Len(tour) - 1 THEN 0
  ELSE distance_matrix[<<tour[k], tour[k + 1]>>]
         + calculate_tour_length_open(tour, k + 1)
RECURSIVE calculate_tour_length(_, _)
calculate_tour_length(tour, k) ==
  IF k >= Len(tour) THEN 0
  ELSE distance_matrix[<<tour[k], tour[k + 1]>>] + calculate_tour_length(tour, k + 1)

\* lines 87-92: the scan of the ants from position k on; b = [tour, length]
RECURSIVE BestAfterNotStrict(_, _, _)
BestAfterNotStrict(all, k, b) ==
  IF k > Len(all) THEN b
  ELSE IF all[k].tour_length <= b.length
  THEN BestAfterNotStrict(all, k + 1,
                          [tour |-> all[k].tour, length |-> all[k].tour_length])
  ELSE BestAfterNotStrict(all, k + 1, b)
RECURSIVE BestAfter(_, _, _)
BestAfter(all, k, b) ==
  IF k > Len(all) THEN b
  ELSE IF all[k].tour_length < b.length
  THEN BestAfter(all, k + 1, [tour |-> all[k].tour, length |-> all[k].tour_length])
  ELSE BestAfter(all, k + 1, b)

\* lines 94-98
Evaporated(matrix) ==
  [e \in DOMAIN matrix |-> FMul(matrix[e], Frac(1, 2))]

\* lines 101-106: the edges of one tour from position k on
RECURSIVE ReinforceTour(_, _, _, _)
ReinforceTour(matrix, tour, tour_length, k) ==
  IF k >= Len(tour) THEN matrix
  ELSE LET a == tour[k]
           b == tour[k + 1]
           deposit == Frac(1, tour_length)
           m1 == [matrix EXCEPT ![<<a, b>>] = FAdd(@, deposit)]
           m2 == [m1 EXCEPT ![<<b, a>>] = FAdd(@, deposit)]
       IN ReinforceTour(m2, tour, tour_length, k + 1)

\* lines 100-107: every ant from position k on
RECURSIVE Reinforced(_, _, _)
Reinforced(matrix, all, k) ==
  IF k > Len(all) THEN matrix
  ELSE Reinforced(ReinforceTour(matrix, all[k].tour, all[k].tour_length, 1),
                  all, k + 1)

\* symmetric distance matrices, zero on the diagonal and nowhere else
DistanceMatrices(n) ==
  {m \in [(0..(n - 1)) \X (0..(n - 1)) -> DistanceValues \cup {0}] :
     \A a, b \in 0..(n - 1) :
        /\ m[<<a, b>>] = m[<<b, a>>]
        /\ (a = b) = (m[<<a, b>>] = 0)}

\* --------------------------------------------------------- routing: actions
NewAnt == [tour |-> <<>>, tour_length |-> 0]

\* lines 24-40
InitRoutingWith(counts, antCount, iterationCount) ==
  /\ num_nodes \in counts
  /\ distance_matrix \in DistanceMatrices(num_nodes)
  /\ num_ants = antCount
  /\ max_iterations = iterationCount
  /\ pheromone_matrix =
       [e \in (0..(num_nodes - 1)) \X (0..(num_nodes - 1)) |-> Frac(1, num_nodes)]
  /\ best_tour = <<>>
  /\ best_tour_length = F64Max
  /\ iteration = 0
  /\ ants = <<>>
  /\ ant = NewAnt
  /\ visited = [k \in 0..(num_nodes - 1) |-> FALSE]
  /\ last_draw = Frac(0, 1)
  /\ pc = "ants"
  /\ num_items = 0 /\ weights = <<>> /\ values = <<>> /\ max_weight = 0
  /\ min_value = 0 /\ sorted_items = <<>> /\ upper_bound = 0 /\ dp = <<>>
  /\ included = <<>> /\ i = 0 /\ improved = {} /\ accessed = {}
  /\ result = Pending

InitRouting == InitRoutingWith(NodeCounts, NumAnts, MaxIterations)

\* lines 46-50: a new ant and its start node
AntStart ==
  /\ pc = "ants"
  /\ Len(ants) < num_ants
  /\ \E start_node \in Nodes :
        /\ ant' = [tour |-> <<start_node>>, tour_length |-> 0]
        /\ visited' = [k \in Nodes |-> k = start_node]
  /\ pc' = "tour"
  /\ UNCHANGED <<kvars, num_nodes, distance_matrix, num_ants, max_iterations,
                 pheromone_matrix, best_tour, best_tour_length, iteration, ants,
                 last_draw>>

\* lines 52-80: one pass of the while loop, with the draw r
AntStep ==
  /\ pc = "tour"
  /\ Len(ant.tour) < num_nodes
  /\ \E draw \in DrawValues :
        LET r == Frac(draw[1], draw[2])
            next_node == NextNode(r)
        IN /\ ant' = [ant EXCEPT !.tour = Append(@, next_node)]
           /\ visited' = [visited EXCEPT ![next_node] = TRUE]
           /\ last_draw' = r
  /\ UNCHANGED <<pc, kvars, num_nodes, distance_matrix, num_ants, max_iterations,
                 pheromone_matrix, best_tour, best_tour_length, iteration, ants>>

\* lines 82-84: close the tour, measure it, keep the ant
AntClose ==
  /\ pc = "tour"
  /\ Len(ant.tour) >= num_nodes
  /\ LET tour == Append(ant.tour, ant.tour[1])
     IN ants' = Append(ants, [tour |-> tour,
                              tour_length |-> calculate_tour_length(tour, 1)])
  /\ ant' = NewAnt
  /\ pc' = "ants"
  /\ UNCHANGED <<kvars, num_nodes, distance_matrix, num_ants, max_iterations,
                 pheromone_matrix, best_tour, best_tour_length, iteration,
                 visited, last_draw>>

\* lines 87-92
UpdateBest ==
  /\ pc = "ants"
  /\ Len(ants) = num_ants
  /\ LET b == BestAfter(ants, 1, [tour |-> best_tour, length |-> best_tour_length])
     IN /\ best_tour' = b.tour
        /\ best_tour_length' = b.length
  /\ pc' = "evaporate"
  /\ UNCHANGED <<kvars, num_nodes, distance_matrix, num_ants, max_iterations,
                 pheromone_matrix, iteration, ants, ant, visited, last_draw>>

\* lines 94-98
Evaporate ==
  /\ pc = "evaporate"
  /\ pheromone_matrix' = Evaporated(pheromone_matrix)
  /\ pc' = "reinforce"
  /\ UNCHANGED <<kvars, num_nodes, distance_matrix, num_ants, max_iterations,
                 best_tour, best_tour_length, iteration, ants, ant, visited,
                 last_draw>>

\* lines 100-108: reinforce, then the next iteration or the end of the loop
Reinforce ==
  /\ pc = "reinforce"
  /\ pheromone_matrix' = Reinforced(pheromone_matrix, ants, 1)
  /\ ants' = <<>>
  /\ iteration' = iteration + 1
  /\ pc' = IF iteration + 1 < max_iterations THEN "ants" ELSE "return"
  /\ UNCHANGED <<kvars, num_nodes, distance_matrix, num_ants, max_iterations,
                 best_tour, best_tour_length, ant, visited, last_draw>>

\* lines 110-112
Return ==
  /\ pc = "return"
  /\ result' = [kind |-> "Some", items |-> <<best_tour>>]
  /\ pc' = "done"
  /\ UNCHANGED <<num_items, weights, values, max_weight, min_value, sorted_items,
                 upper_bound, dp, included, i, improved, accessed, rvars>>

NextRouting ==
  \/ AntStart
  \/ AntStep
  \/ AntClose
  \/ UpdateBest
  \/ Evaporate
  \/ Reinforce
  \/ Return

SpecRouting == InitRouting /\ [][NextRouting]_vars

\* the instances of two nodes (their distance is positive)
InitTwoNodes == InitRoutingWith({2}, NumAnts, MaxIterations)
SpecTwoNodes == InitTwoNodes /\ [][NextRouting]_vars

\* every instance, with FewAnts ants per iteration
InitFewAnts == InitRoutingWith(NodeCounts, FewAnts, MaxIterations)
SpecFewAnts == InitFewAnts /\ [][NextRouting]_vars

\* ------------------------------------------------------- knapsack: claims
RECURSIVE SetSum(_, _)
SetSum(f, S) ==
  IF S = {} THEN 0
  ELSE LET x == CHOOSE y \in S : TRUE IN f[x] + SetSum(f, S \ {x})

\* exhaustive enumeration: some subset of the items fits and reaches min_value
FeasibleSubsetExists ==
  \E S \in SUBSET (0..(num_items - 1)) :
     /\ SetSum(weights, S) <= max_weight
     /\ SetSum(values, S) >= min_value

\* C1: whenever Some(solution) is returned, the weights of solution.items
\* sum to at most max_weight.
C1_WeightWithinCapacity ==
  result.kind = "Some" => SumOver(weights, result.items) <= max_weight

\* C2: whenever Some(solution) is returned, the values of solution.items sum
\* to at least min_value.
C2_ValueReachesThreshold ==
  result.kind = "Some" => SumOver(values, result.items) >= min_value

\* C3: whenever None is returned (by the bound or after the last item), no
\* subset of the items has total weight <= max_weight and total value >=
\* min_value.
C3_NoFalseNegative ==
  result.kind = "None" => ~FeasibleSubsetExists

\* C8: `included` behaves like the two-dimensional table: distinct (position,
\* capacity) pairs address distinct bits, the bit at (j, w) is set exactly
\* when the item at position j strictly improved dp[w], and the reconstructed
\* list is the one the plain table gives.
C8_BitmaskIsTable ==
  /\ \A p, q \in improved :
        (WordIndex(p[1], p[2]) = WordIndex(q[1], q[2])
           /\ BitIndex(p[2]) = BitIndex(q[2])) => p = q
  /\ pc \in {"item", "check", "done"} /\ included # <<>> =>
        \A j \in 0..(num_items - 1) : \A w \in 0..max_weight :
           (j < i \/ (j = i /\ pc # "item")) =>
              (TestBit(included, j, w) <=> <<j, w>> \in improved)
  /\ result.kind = "Some" => result.items = TableItems

\* C10: every word index used to write or read `included` is below its
\* allocated length, for every position below num_items and capacity up to
\* max_weight.
C10_IndexInBounds ==
  /\ \A pos \in 0..(num_items - 1) : \A w \in 0..max_weight :
        WordIndex(pos, w) < IncludedLen
  /\ \A k \in accessed : k < IncludedLen

\* C10 witness: the last word of a bitmask of several words per item has been
\* accessed and a solution returned
C10_Witness ==
  /\ max_weight + 1 > WordBits
  /\ num_items > 1
  /\ (IncludedLen - 1) \in accessed
  /\ result.kind = "Some"

\* -------------------------------------------------------- routing: claims
NoRepeat(s) == \A a, b \in 1..Len(s) : a # b => s[a] # s[b]

\* a closed tour: num_nodes + 1 entries, the first num_nodes of them a
\* permutation of the nodes, the last equal to the first
IsClosedTour(route) ==
  /\ Len(route) = num_nodes + 1
  /\ route[1] = route[num_nodes + 1]
  /\ {route[k] : k \in 1..num_nodes} = Nodes

\* C4: the result is exactly one route, of length num_nodes + 1, that visits
\* every node exactly once and then returns to its start.
C4_ReturnsHamiltonianCycle ==
  pc = "done" => /\ result.kind = "Some"
                 /\ Len(result.items) = 1
                 /\ IsClosedTour(result.items[1])

\* C5: best_tour_length never increases and is never reset; best_tour and
\* best_tour_length change only when an ant of the current iteration is
\* strictly shorter, and then they take that ant's tour and length.
C5_BestOnlyImproves ==
  [][/\ best_tour_length' <= best_tour_length
     /\ (best_tour' # best_tour \/ best_tour_length' # best_tour_length) =>
          \E k \in 1..Len(ants) :
             /\ ants[k].tour_length < best_tour_length
             /\ best_tour' = ants[k].tour
             /\ best_tour_length' = ants[k].tour_length]_vars

\* C5 witness: a later iteration has compared its ants, none of them shorter than the
\* best of the first iteration and none of them that tour: the best was kept
C5_Witness ==
  /\ pc = "evaporate"
  /\ iteration >= 1
  /\ best_tour_length < F64Max
  /\ \A k \in 1..Len(ants) :
        ants[k].tour # best_tour /\ ants[k].tour_length >= best_tour_length

\* C9: the node appended by a selection step is a not-yet-visited node; when
\* the scan selects nothing, it is the last unvisited node in index order; so
\* a tour has no repeated node before it is closed.
LastUnvisited == CHOOSE k \in Nodes : ~visited[k] /\ \A j \in Nodes : ~visited[j] => j <= k
C9_SelectsUnvisited ==
  [][(pc = "tour" /\ Len(ant'.tour) = Len(ant.tour) + 1) =>
        LET next_node == ant'.tour[Len(ant'.tour)]
        IN /\ ~visited[next_node]
           /\ FellThrough(last_draw') => next_node = LastUnvisited
           /\ NoRepeat(ant'.tour)]_vars

====
